---- MODULE Spec2Model ----
(***************************************************************************)
(* Model of the djman audio-analysis scripts:                              *)
(*   scripts/audio_analyzer.py  (get_key_camelot, analyze_audio, main)     *)
(*   python/analysis.py         (analyze, __main__)                        *)
(*   scripts/test_audio_analyzer.py (the driver calling get_key_camelot)   *)
(*                                                                         *)
(* Python str values are TLA+ strings, Python dicts are records, Python    *)
(* numbers are integers (dB, BPM and confidences in whole units).          *)
(* The essentia / mixxx_analyzer libraries are the environment: each call  *)
(* either returns values drawn from a small set or raises.                 *)
(***************************************************************************)
EXTENDS Integers, Sequences, FiniteSets, TLC

VARIABLES
    prog,       \* which script is running
    argv,       \* sys.argv (argv[1] is the script name, Python's sys.argv[0])
    pc,         \* position of the process
    frame,      \* local variables of analyze_audio bound so far
    result,     \* value returned by analyze_audio
    stdout,     \* objects printed to standard output
    stderr,     \* uncaught-exception reports written by the interpreter
    exit_code,  \* process exit status once pc = "exited"
    es_trace,   \* calls made to the external analyzer, with their outcome
    calls       \* get_key_camelot calls made by the unit-test driver

vars == <<prog, argv, pc, frame, result, stdout, stderr, exit_code, es_trace, calls>>

(***************************************************************************)
(* Bounds and input sets                                                   *)
(***************************************************************************)
MaxArgs == 2
MaxGain == 6
MaxCalls == 2

\* Python's None object; no str value of the model equals it.
None == "None"

Paths == {"track.mp3", "missing.mp3"}
ExistingFiles == {"track.mp3"}
ErrorMessages == {"file not found", "analysis failed"}

CanonicalKeys ==
    {"C", "C#", "Db", "D", "D#", "Eb", "E", "F", "F#", "Gb", "G", "G#", "Ab",
     "A", "A#", "Bb", "B"}
UnknownKeys == {"X", "H"}
Keys == CanonicalKeys \cup UnknownKeys
Scales == {"major", "minor", "", "Major"}
Bpms == {90, 128}
Confidences == {0, 1}
Gains == (-MaxGain)..MaxGain

RECURSIVE ArgLists(_)
ArgLists(n) ==
    IF n = 0 THEN {<<>>}
    ELSE ArgLists(n - 1) \cup
         {Append(a, p) : a \in {b \in ArgLists(n - 1) : Len(b) = n - 1}, p \in Paths}

(***************************************************************************)
(* scripts/audio_analyzer.py : get_key_camelot                             *)
(***************************************************************************)
\* variant of the table with the Db entry mistyped
camelot_map_typo ==
    [k \in CanonicalKeys |->
        CASE k = "C"  -> "8B"
          [] k = "C#" -> "3B"
          [] k = "Db" -> "4B"
          [] k = "D"  -> "10B"
          [] k = "D#" -> "5B"
          [] k = "Eb" -> "5B"
          [] k = "E"  -> "12B"
          [] k = "F"  -> "7B"
          [] k = "F#" -> "2B"
          [] k = "Gb" -> "2B"
          [] k = "G"  -> "9B"
          [] k = "G#" -> "4B"
          [] k = "Ab" -> "4B"
          [] k = "A"  -> "11B"
          [] k = "A#" -> "6B"
          [] k = "Bb" -> "6B"
          [] k = "B"  -> "1B"]

camelot_map ==
    [k \in CanonicalKeys |->
        CASE k = "C"  -> "8B"
          [] k = "C#" -> "3B"
          [] k = "Db" -> "3B"
          [] k = "D"  -> "10B"
          [] k = "D#" -> "5B"
          [] k = "Eb" -> "5B"
          [] k = "E"  -> "12B"
          [] k = "F"  -> "7B"
          [] k = "F#" -> "2B"
          [] k = "Gb" -> "2B"
          [] k = "G"  -> "9B"
          [] k = "G#" -> "4B"
          [] k = "Ab" -> "4B"
          [] k = "A"  -> "11B"
          [] k = "A#" -> "6B"
          [] k = "Bb" -> "6B"
          [] k = "B"  -> "1B"]

\* dict.get(key): the stored value, or None when the key is absent
dict_get(d, key) == IF key \in DOMAIN d THEN d[key] ELSE None

\* Python truthiness of a str-or-None value
falsy(v) == v = None \/ v = ""

\* variant that keeps the stored letter instead of stripping it
get_key_camelot_keep_base(key, scale) ==
    LET base == dict_get(camelot_map, key)
    IN  IF falsy(base) THEN None
        ELSE LET letter == IF scale = "minor" THEN "A" ELSE "B"
             IN  base \o letter

\* variant that tests the scale against "major" and defaults to "A"
get_key_camelot_major_test(key, scale) ==
    LET base == dict_get(camelot_map, key)
    IN  IF falsy(base) THEN None
        ELSE LET number == SubSeq(base, 1, Len(base) - 1)
                 letter == IF scale = "major" THEN "B" ELSE "A"
             IN  number \o letter

\* variant that looks the key up with a default entry, camelot_map.get(key, '0B')
get_key_camelot_default(key, scale) ==
    LET base == IF key \in DOMAIN camelot_map THEN camelot_map[key] ELSE "0B"
    IN  IF falsy(base) THEN None
        ELSE LET number == SubSeq(base, 1, Len(base) - 1)
                 letter == IF scale = "minor" THEN "A" ELSE "B"
             IN  number \o letter

get_key_camelot(key, scale) ==
    LET base == dict_get(camelot_map, key)
    IN  IF falsy(base) THEN None
        ELSE LET number == SubSeq(base, 1, Len(base) - 1)
                 letter == IF scale = "minor" THEN "A" ELSE "B"
             IN  number \o letter

(***************************************************************************)
(* scripts/audio_analyzer.py : analyze_audio                               *)
(***************************************************************************)
\* float(x): numeric value preserved
float(x) == x

\* variant with the sign of the gain flipped
lufs_plus(gain) == (-18) + gain

lufs(gain) == (-18) - gain

success_record(bpm, beats_confidence, key, scale, strength, gain) ==
    [success          |-> TRUE,
     bpm              |-> float(bpm),
     key_raw          |-> key \o " " \o scale,
     key_camelot      |-> get_key_camelot(key, scale),
     key              |-> key,
     scale            |-> scale,
     key_strength     |-> float(strength),
     loudness         |-> float(lufs(gain)),
     beats_confidence |-> float(beats_confidence)]

\* variant of the except branch that drops the message
failure_record_no_error(e) == [success |-> FALSE]

failure_record(e) == [success |-> FALSE, error |-> e]

json_dumps(obj, indent) == [type |-> "json", indent |-> indent, obj |-> obj]

\* variant that always reports success to the shell
exit_status_zero(r) == 0

exit_status(r) == IF r.success THEN 0 ELSE 1

\* an external call raising inside the try block of analyze_audio
Raise(fn, e) ==
    /\ es_trace' = Append(es_trace, [fn |-> fn, outcome |-> "raised", error |-> e])
    /\ result' = failure_record(e)
    /\ pc' = "print"
    /\ UNCHANGED frame

Return(fn) == es_trace' = Append(es_trace, [fn |-> fn, outcome |-> "ok", error |-> None])

\* variant of the missing-argument branch that exits without printing
main_usage_silent ==
    /\ prog = "audio_analyzer" /\ pc = "main"
    /\ Len(argv) < 2
    /\ exit_code' = 1
    /\ pc' = "exited"
    /\ UNCHANGED <<prog, argv, frame, result, stdout, stderr, es_trace, calls>>

main_usage ==
    /\ prog = "audio_analyzer" /\ pc = "main"
    /\ Len(argv) < 2
    /\ stdout' = Append(stdout,
                    json_dumps([success |-> FALSE, error |-> "No file path provided"], 0))
    /\ exit_code' = 1
    /\ pc' = "exited"
    /\ UNCHANGED <<prog, argv, frame, result, stderr, es_trace, calls>>

main_call ==
    /\ prog = "audio_analyzer" /\ pc = "main"
    /\ ~(Len(argv) < 2)
    /\ frame' = [file_path |-> argv[2]]
    /\ pc' = "MonoLoader"
    /\ UNCHANGED <<prog, argv, result, stdout, stderr, exit_code, es_trace, calls>>

MonoLoader ==
    /\ pc = "MonoLoader"
    /\ \/ /\ frame.file_path \in ExistingFiles
          /\ Return("MonoLoader")
          /\ pc' = "RhythmExtractor2013"
          /\ UNCHANGED <<frame, result>>
       \/ \E e \in ErrorMessages : Raise("MonoLoader", e)
    /\ UNCHANGED <<prog, argv, stdout, stderr, exit_code, calls>>

RhythmExtractor2013 ==
    /\ pc = "RhythmExtractor2013"
    /\ \/ \E b \in Bpms, c \in Confidences :
            /\ Return("RhythmExtractor2013")
            /\ frame' = frame @@ [bpm |-> b, beats_confidence |-> c]
            /\ pc' = "KeyExtractor"
            /\ UNCHANGED result
       \/ \E e \in ErrorMessages : Raise("RhythmExtractor2013", e)
    /\ UNCHANGED <<prog, argv, stdout, stderr, exit_code, calls>>

KeyExtractor ==
    /\ pc = "KeyExtractor"
    /\ \/ \E k \in Keys, s \in Scales, st \in Confidences :
            /\ Return("KeyExtractor")
            /\ frame' = frame @@ [key |-> k, scale |-> s, strength |-> st]
            /\ pc' = "ReplayGain"
            /\ UNCHANGED result
       \/ \E e \in ErrorMessages : Raise("KeyExtractor", e)
    /\ UNCHANGED <<prog, argv, stdout, stderr, exit_code, calls>>

ReplayGain ==
    /\ pc = "ReplayGain"
    /\ \/ \E g \in Gains :
            /\ Return("ReplayGain")
            /\ frame' = frame @@ [gain |-> g]
            /\ result' = success_record(frame.bpm, frame.beats_confidence,
                                        frame.key, frame.scale, frame.strength, g)
            /\ pc' = "print"
       \/ \E e \in ErrorMessages : Raise("ReplayGain", e)
    /\ UNCHANGED <<prog, argv, stdout, stderr, exit_code, calls>>

main_print ==
    /\ prog = "audio_analyzer" /\ pc = "print"
    /\ stdout' = Append(stdout, json_dumps(result, 2))
    /\ exit_code' = exit_status(result)
    /\ pc' = "exited"
    /\ UNCHANGED <<prog, argv, frame, result, stderr, es_trace, calls>>

(***************************************************************************)
(* python/analysis.py                                                      *)
(***************************************************************************)
MixxxResults ==
    {[bpm |-> 128, key |-> "C# minor", camelot |-> "3A", lufs |-> -12,
      replay_gain |-> -6, intro_secs |-> 4, outro_secs |-> 200],
     [bpm |-> 90, key |-> "A major", camelot |-> "11B", lufs |-> -21,
      replay_gain |-> 3, intro_secs |-> 0, outro_secs |-> 180]}

analysis_usage ==
    /\ prog = "analysis" /\ pc = "main"
    /\ Len(argv) # 2
    /\ stdout' = Append(stdout, [type |-> "text", text |-> "usage: analysis.py <audiofile>"])
    /\ exit_code' = 1
    /\ pc' = "exited"
    /\ UNCHANGED <<prog, argv, frame, result, stderr, es_trace, calls>>

analysis_call ==
    /\ prog = "analysis" /\ pc = "main"
    /\ ~(Len(argv) # 2)
    /\ frame' = [path |-> argv[2]]
    /\ pc' = "analyze"
    /\ UNCHANGED <<prog, argv, result, stdout, stderr, exit_code, es_trace, calls>>

analyze ==
    /\ prog = "analysis" /\ pc = "analyze"
    /\ \/ \E r \in MixxxResults :
            /\ frame.path \in ExistingFiles
            /\ Return("mixxx_analyzer.analyze")
            /\ stdout' = Append(stdout,
                  json_dumps([bpm |-> r.bpm, key_raw |-> r.key, key_camelot |-> r.camelot,
                              lufs |-> r.lufs, replay_gain |-> r.replay_gain,
                              intro_secs |-> r.intro_secs, outro_secs |-> r.outro_secs], 0))
            /\ exit_code' = 0
            /\ UNCHANGED stderr
       \/ \E e \in ErrorMessages :
            \* no try/except: the exception leaves analyze() and the interpreter
            \* reports it on stderr and terminates with status 1
            /\ es_trace' = Append(es_trace,
                  [fn |-> "mixxx_analyzer.analyze", outcome |-> "raised", error |-> e])
            /\ stderr' = Append(stderr, [type |-> "traceback", error |-> e])
            /\ exit_code' = 1
            /\ UNCHANGED stdout
    /\ pc' = "exited"
    /\ UNCHANGED <<prog, argv, frame, result, calls>>

(***************************************************************************)
(* scripts/test_audio_analyzer.py : calls of get_key_camelot               *)
(***************************************************************************)
call_get_key_camelot ==
    /\ prog = "test_audio_analyzer" /\ pc = "imported"
    /\ Len(calls) < MaxCalls
    /\ \E k \in Keys, s \in Scales :
          calls' = Append(calls, [key |-> k, scale |-> s, ret |-> get_key_camelot(k, s)])
    /\ UNCHANGED <<prog, argv, pc, frame, result, stdout, stderr, exit_code, es_trace>>

(***************************************************************************)
(* Specifications                                                          *)
(***************************************************************************)
Init ==
    /\ prog \in {"audio_analyzer", "analysis"}
    /\ argv \in {<<prog>> \o a : a \in ArgLists(MaxArgs)}
    /\ pc = "main"
    /\ frame = <<>>
    /\ result = <<>>
    /\ stdout = <<>>
    /\ stderr = <<>>
    /\ exit_code = None
    /\ es_trace = <<>>
    /\ calls = <<>>

Next ==
    \/ main_usage
    \/ main_call
    \/ MonoLoader
    \/ RhythmExtractor2013
    \/ KeyExtractor
    \/ ReplayGain
    \/ main_print
    \/ analysis_usage
    \/ analysis_call
    \/ analyze

Spec == Init /\ [][Next]_vars

InitCamelot ==
    /\ prog = "test_audio_analyzer"
    /\ argv = <<"test_audio_analyzer">>
    /\ pc = "imported"
    /\ frame = <<>>
    /\ result = <<>>
    /\ stdout = <<>>
    /\ stderr = <<>>
    /\ exit_code = None
    /\ es_trace = <<>>
    /\ calls = <<>>

NextCamelot == call_get_key_camelot

SpecCamelot == InitCamelot /\ [][NextCamelot]_vars

(***************************************************************************)
(* Properties                                                              *)
(***************************************************************************)
Digits == <<"0", "1", "2", "3", "4", "5", "6", "7", "8", "9">>

RECURSIVE Decimal(_)
Decimal(n) == IF n < 10 THEN Digits[n + 1] ELSE Decimal(n \div 10) \o Digits[(n % 10) + 1]

\* the number column of the Camelot table
TableNumber ==
    [k \in CanonicalKeys |->
        CASE k = "C" -> 8
          [] k \in {"C#", "Db"} -> 3
          [] k = "D" -> 10
          [] k \in {"D#", "Eb"} -> 5
          [] k = "E" -> 12
          [] k = "F" -> 7
          [] k \in {"F#", "Gb"} -> 2
          [] k = "G" -> 9
          [] k \in {"G#", "Ab"} -> 4
          [] k = "A" -> 11
          [] k \in {"A#", "Bb"} -> 6
          [] k = "B" -> 1]

EnharmonicPairs == {{"C#", "Db"}, {"D#", "Eb"}, {"F#", "Gb"}, {"G#", "Ab"}, {"A#", "Bb"}}

NumberOf(code) == SubSeq(code, 1, Len(code) - 1)
LetterOf(code) == SubSeq(code, Len(code), Len(code))

CallIdx == 1..Len(calls)

SuccessFields ==
    {"bpm", "key_raw", "key_camelot", "key", "scale", "key_strength", "loudness",
     "beats_confidence"}

\* analyze_audio has returned a value to main
Returned == prog = "audio_analyzer" /\ pc \in {"print", "exited"} /\ DOMAIN result # {}
Raised == \E i \in 1..Len(es_trace) : es_trace[i].outcome = "raised"
AllStepsOk == Returned /\ Len(es_trace) = 4 /\ ~Raised
Positional == Len(argv) - 1

\* C1: for each of the 17 canonical keys and each scale in {major, minor},
\* get_key_camelot returns the table number in decimal followed by "B" for
\* major and "A" for minor.
C1_TableLiterals ==
    \A i \in CallIdx :
        (calls[i].key \in CanonicalKeys /\ calls[i].scale \in {"major", "minor"})
        => calls[i].ret = Decimal(TableNumber[calls[i].key])
                            \o (IF calls[i].scale = "major" THEN "B" ELSE "A")

C1_Witness ==
    \E i \in CallIdx :
        calls[i].key = "D" /\ calls[i].scale = "minor" /\ calls[i].ret = "10A"

\* C2 (as stated): for a recognized key the letter is "B" only when the scale
\* is exactly "major"; every other scale value gives the letter "A".
C2_LetterADefault ==
    \A i \in CallIdx :
        calls[i].key \in CanonicalKeys
        => LetterOf(calls[i].ret) = (IF calls[i].scale = "major" THEN "B" ELSE "A")

\* C2 (amended): for a recognized key the letter is "A" only when the scale is
\* exactly "minor"; every other scale value ("major", "", "Major", ...) gives
\* the letter "B".
C2_LetterBDefault ==
    \A i \in CallIdx :
        calls[i].key \in CanonicalKeys
        => LetterOf(calls[i].ret) = (IF calls[i].scale = "minor" THEN "A" ELSE "B")

C2_Witness ==
    \E i \in CallIdx :
        calls[i].key = "C" /\ calls[i].scale = "" /\ calls[i].ret = "8B"

\* C3: when every analyzer call succeeds and the key is not one of the 17
\* canonical spellings, analyze_audio returns a success record whose
\* key_camelot is None and whose other fields are all present; no failure
\* record is produced.
C3_UnknownKeyIsSuccess ==
    (AllStepsOk /\ frame.key \notin CanonicalKeys)
    => /\ result.success = TRUE
       /\ result.key_camelot = None
       /\ DOMAIN result = SuccessFields \cup {"success"}
       /\ result.key = frame.key /\ result.scale = frame.scale
       /\ stderr = <<>>

C3_Witness ==
    /\ AllStepsOk /\ pc = "exited"
    /\ frame.key = "H" /\ frame.scale = "minor"
    /\ result.success = TRUE /\ result.key_camelot = None

\* C4: if any analyzer step raises, analyze_audio returns exactly
\* {success: false, error: message}, the exception does not reach the caller,
\* and a record with success = true never lacks one of the eight result fields.
C4_FailureRecord ==
    /\ (prog = "audio_analyzer" /\ Raised)
       => /\ Returned
          /\ DOMAIN result = {"success", "error"}
          /\ result.success = FALSE
          /\ result.error = es_trace[Len(es_trace)].error
          /\ stderr = <<>>
    /\ (Returned /\ result.success = TRUE) => SuccessFields \subseteq DOMAIN result

C4_Witness ==
    /\ prog = "audio_analyzer" /\ pc = "print"
    /\ Len(es_trace) = 3 /\ es_trace[3].fn = "KeyExtractor" /\ es_trace[3].outcome = "raised"
    /\ result.success = FALSE /\ result.error = "analysis failed"

\* C5: a finished run of audio_analyzer.py has exit status 0 exactly when the
\* record it printed has success = true, and status 1 when the argument is
\* missing or analyze_audio returned a failure record.
C5_ExitStatus ==
    (prog = "audio_analyzer" /\ pc = "exited")
    => /\ exit_code \in {0, 1}
       /\ (exit_code = 0) <=> (stdout[Len(stdout)].obj.success = TRUE)
       /\ (Len(argv) < 2) => exit_code = 1
       /\ (Len(argv) >= 2 /\ result.success = FALSE) => exit_code = 1

C5_Witness ==
    /\ prog = "audio_analyzer" /\ pc = "exited" /\ Raised
    /\ exit_code = 1 /\ stdout[1].obj.success = FALSE

\* C6: in both entry points an invocation whose number of positional
\* arguments is not exactly one never invokes the analyzer and exits non-zero.
C6_UsageError ==
    (prog \in {"audio_analyzer", "analysis"} /\ Positional # 1)
    => /\ es_trace = <<>>
       /\ pc \in {"main", "exited"}
       /\ pc = "exited" => exit_code # 0

\* C7: in analysis.py a failing analyzer call ends with a structured failure
\* record on stdout, a non-zero exit status and no unhandled exception.
C7_FailureCaught ==
    (prog = "analysis" /\ pc = "exited" /\ Raised)
    => /\ stderr = <<>>
       /\ exit_code # 0
       /\ Len(stdout) = 1
       /\ stdout[1].type = "json"
       /\ DOMAIN stdout[1].obj = {"success", "error"}
       /\ stdout[1].obj.success = FALSE

\* C8: when every analyzer step succeeds, the record has success = true,
\* key_raw = key, one space, scale; key_camelot = get_key_camelot(key, scale);
\* loudness = -18 - gain; and bpm, key, scale, key_strength, beats_confidence
\* are the analyzer's values.
C8_SuccessRecord ==
    AllStepsOk
    => /\ result.success = TRUE
       /\ result.key_raw = frame.key \o " " \o frame.scale
       /\ result.key_camelot = get_key_camelot(frame.key, frame.scale)
       /\ result.loudness = (-18) - frame.gain
       /\ result.bpm = frame.bpm
       /\ result.key = frame.key
       /\ result.scale = frame.scale
       /\ result.key_strength = frame.strength
       /\ result.beats_confidence = frame.beats_confidence

C8_Witness ==
    /\ AllStepsOk
    /\ frame.bpm = 128 /\ frame.key = "C#" /\ frame.scale = "minor" /\ frame.gain = 3
    /\ result.key_raw = "C# minor" /\ result.key_camelot = "3A" /\ result.loudness = -21

\* C9: a run of audio_analyzer.py has printed nothing before it exits and
\* exactly one JSON object when it has exited: the missing-argument failure
\* record, or the record analyze_audio returned.
C9_OneJsonObject ==
    prog = "audio_analyzer"
    => /\ pc # "exited" => stdout = <<>>
       /\ pc = "exited"
          => /\ Len(stdout) = 1
             /\ stdout[1].type = "json"
             /\ IF Len(argv) < 2
                THEN stdout[1].obj = [success |-> FALSE, error |-> "No file path provided"]
                ELSE stdout[1].obj = result

C9_Witness ==
    /\ prog = "audio_analyzer" /\ pc = "exited" /\ Len(argv) < 2
    /\ Len(stdout) = 1 /\ stdout[1].obj.success = FALSE

\* C10: over the canonical keys, for one scale two distinct spellings get the
\* same Camelot number exactly when they form an enharmonic pair; the number
\* lies in 1..12 and is the same for both scales.
C10_Enharmonic ==
    \A i \in CallIdx :
        calls[i].key \in CanonicalKeys
        => /\ NumberOf(calls[i].ret) \in {Decimal(n) : n \in 1..12}
           /\ \A j \in CallIdx :
                 calls[j].key \in CanonicalKeys
                 => /\ (calls[i].key # calls[j].key /\ calls[i].scale = calls[j].scale)
                       => ((NumberOf(calls[i].ret) = NumberOf(calls[j].ret))
                            <=> ({calls[i].key, calls[j].key} \in EnharmonicPairs))
                    /\ calls[i].key = calls[j].key
                       => NumberOf(calls[i].ret) = NumberOf(calls[j].ret)

C10_Witness ==
    \E i, j \in CallIdx :
        /\ calls[i].key = "C#" /\ calls[j].key = "Db"
        /\ calls[i].scale = "major" /\ calls[j].scale = "major"
        /\ calls[i].ret = "3B" /\ calls[j].ret = "3B"

====
